---- MODULE Spec2Model ----
(***************************************************************************)
(* A model of tldr-scribe's bot (src/bot.py): the polling loop of          *)
(* TLDRBot.run with TLDRBot.get_new_mentions, the summarizer               *)
(* TLDRBot.create_summary and TranscriptFormatter.format_transcript.       *)
(*                                                                         *)
(* Strings are sequences of character tokens.  The remote services         *)
(* (tweepy client, replicate client) are the environment: each call        *)
(* either raises or returns a value drawn from a small set.                *)
(***************************************************************************)
EXTENDS Integers, Sequences, FiniteSets

VARIABLES
    \* ---- TLDRBot.run / get_new_mentions -------------------------------
    pc,               \* position of run(): "start", "poll", "mention", "sleep", "returned"
    last_mention_id,  \* self.last_mention_id (NoId models None)
    mentions,         \* the part of `mentions` the for loop has not visited yet
    raw,              \* history: mentions.data of the latest poll (pre-filter)
    polled,           \* history: the list the latest get_new_mentions() returned
    cursorBefore,     \* history: last_mention_id when the latest poll began
    requested,        \* history: <<since_id>> of the latest API request, <<>> if none was sent
    pollOutcome,      \* history: how the latest poll ended
    delivered,        \* history: every id the API ever delivered
    deliveredBefore,  \* history: `delivered` when the latest poll began
    attempted,        \* history: ids the for loop visited in this iteration
    outcomes,         \* history: how each visit ended ("url", "no_url", "error")
    replies,          \* ids of the mentions a reply was posted to
    timesReturned,    \* history: id -> number of polls that returned it
    timesProcessed,   \* history: id -> number of visits by the for loop
    sleeps,           \* history: time.sleep(60) calls since the latest poll
    lastError,        \* history: where the latest exception arose
    \* ---- TranscriptFormatter.format_transcript ------------------------
    fmtDir,           \* the files of transcript_dir: a set of [name, content]
    fmtCalls,         \* history: the calls made, [transcript, summary, url, filename]
    fmtResult,        \* what the latest call returned (Raised if it raised)
    \* ---- TLDRBot.create_summary ---------------------------------------
    sumPc,            \* "idle", "loop", "done"
    sumLen,           \* len(transcript)
    sumChunks,        \* `chunks`: each a slice <<lo, hi>> of the transcript
    sumCalls,         \* history: the chunk of every replicate call, in call order
    sumOutputs,       \* history: the output of every replicate call
    summaries,        \* `summaries`
    sumResult         \* the returned value (<<"value", s>> or <<"None">>)

botVars == <<pc, last_mention_id, mentions, raw, polled, cursorBefore, requested,
             pollOutcome, delivered, deliveredBefore, attempted, outcomes, replies,
             timesReturned, timesProcessed, sleeps, lastError>>
fmtVars == <<fmtDir, fmtCalls, fmtResult>>
sumVars == <<sumPc, sumLen, sumChunks, sumCalls, sumOutputs, summaries, sumResult>>
vars == <<botVars, fmtVars, sumVars>>

----------------------------------------------------------------------------
(* Bounds of the model *)

\* mention identifiers are 1..MaxId
MaxId == 4
\* the API delivers at most Min(max_results, MaxBatch) mentions per request
MaxBatch == 2
\* transcripts of up to MaxChunks full chunks are summarized
MaxChunks == 2
\* at most MaxFormatCalls calls of format_transcript are followed
MaxFormatCalls == 2

(* Program constants *)

\* max_results=5 of get_users_mentions
max_results == 5
\* max_length = 1024 of create_summary
max_length == 1024
\* hexdigest()[:10]
IdLen == 10
\* None, the initial last_mention_id: no lower bound for the request
NoId == 0

Min(a, b) == IF a <= b THEN a ELSE b
Max(a, b) == IF a >= b THEN a ELSE b

RECURSIVE SetMax(_)
SetMax(S) ==
    IF S = {} THEN 0
    ELSE LET x == CHOOSE y \in S : TRUE IN Max(x, SetMax(S \ {x}))

Range(f) == {f[k] : k \in DOMAIN f}

----------------------------------------------------------------------------
(* Mention texts and the URL pattern of run() *)

\* A text is a sequence of tokens: "scheme" is the literal http:// or https://,
\* "uc" one character of the pattern's class (letters, digits, $-_ @ . & + ! * ( ) ,
\* or a %XX escape), "other" one character outside it (a blank, a quote, ...).
\* The characters of "scheme" are themselves in the class.
Texts ==
    { <<"uc", "other", "uc">>,                           \* "@bot hello"
      <<"uc", "other", "scheme", "uc", "other", "uc">>,  \* "@bot https://v.example/w?v=abc please"
      <<"uc", "other", "scheme">> }                      \* "@bot https://"

\* the last index of the run of class characters that starts at i (i-1 if empty)
RECURSIVE RunEnd(_, _)
RunEnd(t, i) ==
    IF i <= Len(t) /\ t[i] # "other" THEN RunEnd(t, i + 1) ELSE i - 1

\* re.findall('http[s]?://(?:<class>)+', text): leftmost, greedy, non-overlapping
RECURSIVE FindAllFrom(_, _)
FindAllFrom(t, i) ==
    IF i > Len(t) THEN <<>>
    ELSE IF t[i] = "scheme" /\ RunEnd(t, i + 1) >= i + 1
         THEN <<SubSeq(t, i, RunEnd(t, i + 1))>> \o FindAllFrom(t, RunEnd(t, i + 1) + 1)
         ELSE FindAllFrom(t, i + 1)

FindAll(t) == FindAllFrom(t, 1)

----------------------------------------------------------------------------
(* The social API *)

\* referenced_tweets of a mention: None/empty, or a list of reference types
RefLists == { <<>>, <<"replied_to">>, <<"quoted">> }

\* the API honours since_id: it delivers ids strictly greater than it, at most
\* max_results of them, in an order of its own choosing
BatchCap == Min(max_results, MaxBatch)

Injective(f) == \A a, b \in DOMAIN f : a # b => f[a] # f[b]

IdSeqs(since) ==
    UNION { { s \in [1..n -> (since + 1)..MaxId] : Injective(s) } : n \in 1..BatchCap }

MakeBatch(ids, refs, texts) ==
    [k \in DOMAIN ids |-> [id |-> ids[k], referenced_tweets |-> refs[k], text |-> texts[k]]]

Ids(batch) == [k \in DOMAIN batch |-> batch[k].id]

\* lines 161-163: hasattr(...) and mention.referenced_tweets and any(ref.type == "replied_to" ...)
IsReply(m) ==
    /\ m.referenced_tweets # <<>>
    /\ \E k \in DOMAIN m.referenced_tweets : m.referenced_tweets[k] = "replied_to"

\* a plausible slip: the reply filter left out
FilterReplies_all(batch) == batch

\* lines 159-164: the filter loop keeps mentions.data's order
RECURSIVE FilterReplies(_)
FilterReplies(batch) ==
    IF batch = <<>> THEN <<>>
    ELSE IF IsReply(Head(batch))
         THEN <<Head(batch)>> \o FilterReplies(Tail(batch))
         ELSE FilterReplies(Tail(batch))

\* a plausible slip: the maximum taken over the replies kept, not the raw batch
NewCursor_replies(batch) ==
    SetMax({batch[k].id : k \in {j \in DOMAIN batch : IsReply(batch[j])}})

\* a plausible slip: the last mention delivered taken for the newest
NewCursor_last(batch) == batch[Len(batch)].id

\* line 156: max(tweet.id for tweet in mentions.data)
NewCursor(batch) == SetMax(Range(Ids(batch)))

Bump(count, ids) == [i \in DOMAIN count |-> IF i \in ids THEN Min(count[i] + 1, 2) ELSE count[i]]

----------------------------------------------------------------------------
(* TLDRBot.get_new_mentions and TLDRBot.run *)

\* How a poll can end.  Both remote calls of lines 144-150 can raise:
\* get_me() (line 145, evaluated first, as an argument) and
\* get_users_mentions().  Lines 152-166 work on the parsed response and call
\* nothing that raises.
PollOutcomes == {"fail_get_me", "fail_get_mentions", "empty", "batch"}

\* a plausible slip: the cursor assigned before the emptiness test, from
\* max(..., default=None)
CursorAfter_reset(outcome, batch, cur) ==
    IF batch # <<>> THEN NewCursor(batch) ELSE NoId

\* self.last_mention_id after the poll: assigned on line 156 only, after the
\* `if not mentions.data: return []` of lines 152-153
CursorAfter(outcome, batch, cur) ==
    IF outcome = "batch" THEN NewCursor(batch) ELSE cur

\* what get_new_mentions returns: line 166, or [] on lines 153 and 170
PollReturn(outcome, batch) ==
    IF outcome = "batch" THEN FilterReplies(batch) ELSE <<>>

\* a plausible slip: no inner handler (or `break` in it), so a visit that
\* raises ends the batch
AfterMention_abort(raised, ms) == IF raised THEN <<>> ELSE Tail(ms)

\* the rest of the for loop after a visit: the inner handler of lines 226-228
\* ends in `continue`, so a visit that raised goes on like one that did not
AfterMention(raised, ms) == Tail(ms)

\* where run() is after the for loop has taken `ms` as what is left to visit
LoopPc(ms) == IF ms = <<>> THEN "sleep" ELSE "mention"

BotInit ==
    /\ pc = "start"
    /\ last_mention_id = NoId
    /\ mentions = <<>>
    /\ raw = <<>>
    /\ polled = <<>>
    /\ cursorBefore = NoId
    /\ requested = <<>>
    /\ pollOutcome = "none"
    /\ delivered = {}
    /\ deliveredBefore = {}
    /\ attempted = <<>>
    /\ outcomes = <<>>
    /\ replies = {}
    /\ timesReturned = [i \in 1..MaxId |-> 0]
    /\ timesProcessed = [i \in 1..MaxId |-> 0]
    /\ sleeps = 0
    /\ lastError = "none"

\* lines 193-201: get_me() on startup; run() returns if it raises
BotStartup ==
    /\ pc = "start"
    /\ \E ok \in BOOLEAN :
        /\ pc' = IF ok THEN "poll" ELSE "returned"
        /\ lastError' = IF ok THEN lastError ELSE "startup"
    /\ UNCHANGED <<last_mention_id, mentions, raw, polled, cursorBefore, requested,
                   pollOutcome, delivered, deliveredBefore, attempted, outcomes,
                   replies, timesReturned, timesProcessed, sleeps, fmtVars, sumVars>>

\* line 206 with lines 140-170: one call of get_new_mentions, and the for loop
\* of line 208 taking its result
GetNewMentions ==
    /\ pc = "poll"
    /\ \E outcome \in PollOutcomes :
        \E ids \in (IF outcome = "batch" THEN IdSeqs(last_mention_id) ELSE {<<>>}) :
        \E refs \in [DOMAIN ids -> RefLists] :
        \E texts \in [DOMAIN ids -> Texts] :
            LET batch == MakeBatch(ids, refs, texts)
                result == PollReturn(outcome, batch)
            IN  /\ pollOutcome' = outcome
                /\ cursorBefore' = last_mention_id
                /\ requested' = IF outcome = "fail_get_me" THEN <<>> ELSE <<last_mention_id>>
                /\ raw' = batch
                /\ last_mention_id' = CursorAfter(outcome, batch, last_mention_id)
                /\ polled' = result
                /\ mentions' = result
                /\ pc' = LoopPc(result)
                /\ deliveredBefore' = delivered
                /\ delivered' = delivered \cup Range(ids)
                /\ timesReturned' = Bump(timesReturned, Range(Ids(result)))
                /\ lastError' = IF outcome \in {"fail_get_me", "fail_get_mentions"}
                                THEN "poll" ELSE lastError
    /\ sleeps' = 0
    /\ attempted' = <<>>
    /\ outcomes' = <<>>
    /\ UNCHANGED <<replies, timesProcessed, fmtVars, sumVars>>

\* lines 208-228: one pass of the for loop body.  The body prints, extracts the
\* URLs and prints again; any of it may raise (print on a text the console
\* cannot encode), which the inner handler catches.  No statement of the body
\* fetches, transcribes, summarizes, formats or posts a reply (lines 220-221).
ProcessMention ==
    /\ pc = "mention"
    /\ mentions # <<>>
    /\ \E raised \in BOOLEAN :
        LET m == Head(mentions)
            urls == FindAll(m.text)
            rest == AfterMention(raised, mentions)
        IN  /\ attempted' = Append(attempted, m.id)
            /\ outcomes' = Append(outcomes,
                                  IF raised THEN "error"
                                  ELSE IF urls # <<>> THEN "url" ELSE "no_url")
            /\ timesProcessed' = Bump(timesProcessed, {m.id})
            /\ lastError' = IF raised THEN "mention" ELSE lastError
            /\ mentions' = rest
            /\ pc' = LoopPc(rest)
    /\ UNCHANGED <<last_mention_id, raw, polled, cursorBefore, requested, pollOutcome,
                   delivered, deliveredBefore, replies, timesReturned, sleeps,
                   fmtVars, sumVars>>

\* a plausible slip: the loop body not inside `while True`
Sleep_exit ==
    /\ pc = "sleep"
    /\ pc' = "returned"
    /\ UNCHANGED <<last_mention_id, mentions, raw, polled, cursorBefore, requested,
                   pollOutcome, delivered, deliveredBefore, attempted, outcomes,
                   replies, timesReturned, timesProcessed, sleeps, lastError,
                   fmtVars, sumVars>>

\* line 231: time.sleep(60), then the next pass of `while True`.  The outer
\* handler of lines 233-235 is never entered: get_new_mentions and the for
\* loop's body catch every Exception themselves.
Sleep ==
    /\ pc = "sleep"
    /\ pc' = "poll"
    /\ sleeps' = sleeps + 1
    /\ raw' = <<>>
    /\ polled' = <<>>
    /\ requested' = <<>>
    /\ deliveredBefore' = {}
    /\ attempted' = <<>>
    /\ outcomes' = <<>>
    /\ UNCHANGED <<last_mention_id, mentions, cursorBefore, pollOutcome, delivered,
                   replies, timesReturned, timesProcessed, lastError, fmtVars, sumVars>>

BotNext ==
    \/ BotStartup
    \/ GetNewMentions
    \/ ProcessMention
    \/ Sleep

----------------------------------------------------------------------------
(* Strings *)

Whitespace == {"sp", "nl"}

\* str.strip(): leading and trailing whitespace removed
RECURSIVE LStrip(_)
LStrip(s) == IF s # <<>> /\ Head(s) \in Whitespace THEN LStrip(Tail(s)) ELSE s

RECURSIVE RStrip(_)
RStrip(s) ==
    IF s # <<>> /\ s[Len(s)] \in Whitespace THEN RStrip(SubSeq(s, 1, Len(s) - 1)) ELSE s

Strip(s) == RStrip(LStrip(s))

\* str.split("\n"): the pieces between the line breaks (always at least one)
RECURSIVE SplitFrom(_, _)
SplitFrom(s, cur) ==
    IF s = <<>> THEN <<cur>>
    ELSE IF Head(s) = "nl" THEN <<cur>> \o SplitFrom(Tail(s), <<>>)
         ELSE SplitFrom(Tail(s), Append(cur, Head(s)))

SplitLines(s) == SplitFrom(s, <<>>)

\* sep.join(parts)
RECURSIVE Join(_, _)
Join(parts, sep) ==
    IF parts = <<>> THEN <<>>
    ELSE IF Len(parts) = 1 THEN parts[1]
         ELSE parts[1] \o sep \o Join(Tail(parts), sep)

\* str.replace(old, new) for one-character old and new
Replace(s, old, new) == [k \in DOMAIN s |-> IF s[k] = old THEN new ELSE s[k]]

StartsWith(s, c) == s # <<>> /\ Head(s) = c

----------------------------------------------------------------------------
(* TranscriptFormatter.format_transcript *)

Transcripts ==
    { <<>>,
      <<"a">>,
      <<"b">>,
      <<"sp", "a", "nl", "nl", "b", "sp">> }

Summaries == { <<"bullet", "sp", "a">>, <<"bullet", "sp", "b">> }

Urls == { "https://t.example/1", "https://t.example/2" }

Dates == { "January 01, 2025", "January 02, 2025" }

Code(c) ==
    CASE c = "a" -> 1 [] c = "b" -> 2 [] c = "nl" -> 3 [] c = "sp" -> 4
      [] c = "bullet" -> 5 [] c = "star" -> 6 [] c = "md" -> 7 [] OTHER -> 8

\* the sum of weight(i) * Code(s[i]) with weight(i) = 1 (flat) or i (by position)
RECURSIVE CodeSum(_, _, _)
CodeSum(s, i, byPosition) ==
    IF i > Len(s) THEN 0
    ELSE Code(s[i]) * (IF byPosition THEN i ELSE 1) + CodeSum(s, i + 1, byPosition)

\* hashlib.md5(text.encode()).hexdigest(): 32 hexadecimal digits that are a
\* function of the text's characters alone.  The digest here is a stand-in
\* with that signature, not MD5's arithmetic.
Md5Hex(s) ==
    LET flat == CodeSum(s, 1, FALSE)
        positional == CodeSum(s, 1, TRUE)
    IN  [k \in 1..32 |-> (Len(s) + positional + k * flat) % 16]

\* line 95: the non-blank lines, stripped, joined by blank lines
NonBlank(lines) == SelectSeq(lines, LAMBDA l : Strip(l) # <<>>)

MarkdownContent(transcript) ==
    LET kept == NonBlank(SplitLines(transcript))
    IN  Join([k \in DOMAIN kept |-> Strip(kept[k])], <<"nl", "nl">>)

\* line 96
SummaryContent(summary) == Replace(summary, "bullet", "star")

\* markdown.markdown(text): the library's rendering, a function of its text
Markdown(text) == <<"md">> \o text

\* lines 103-109: the template filled in
Html(transcript, summary, tweet_url, date) ==
    [ title     |-> "Video Transcript",
      date      |-> date,
      tweet_url |-> tweet_url,
      summary   |-> Markdown(SummaryContent(summary)),
      content   |-> Markdown(MarkdownContent(transcript)) ]

\* a plausible slip: the page's identifier taken from what is rendered
Filename_ofPage(transcript, summary, tweet_url) ==
    <<"transcript_">>
        \o SubSeq(Md5Hex(MarkdownContent(transcript) \o SummaryContent(summary)), 1, IdLen)
        \o <<".html">>

\* lines 101 and 111: f"transcript_{md5(transcript)[:10]}.html"; summary and
\* tweet_url are in scope and unused
Filename(transcript, summary, tweet_url) ==
    <<"transcript_">> \o SubSeq(Md5Hex(transcript), 1, IdLen) \o <<".html">>

\* lines 113-114: open(filepath, "w") replaces the file of that name
WriteFile(dir, name, content) ==
    {e \in dir : e.name # name} \cup {[name |-> name, content |-> content]}

Raised == <<"raised">>

FmtInit ==
    /\ fmtDir = {}
    /\ fmtCalls = {}
    /\ fmtResult = <<>>

\* lines 93-116: one call.  open() may raise (nothing is written), the write
\* may raise (the file is left truncated), or the filename is returned.
FormatTranscript ==
    /\ \E transcript \in Transcripts, summary \in Summaries, tweet_url \in Urls,
          date \in Dates, outcome \in {"ok", "open_raises", "write_raises"} :
        LET filename == Filename(transcript, summary, tweet_url)
            result == IF outcome = "ok" THEN filename ELSE Raised
            call == [transcript |-> transcript, summary |-> summary,
                     tweet_url |-> tweet_url, result |-> result]
        IN  /\ call \in fmtCalls \/ Cardinality(fmtCalls) < MaxFormatCalls
            /\ fmtCalls' = fmtCalls \cup {call}
            /\ fmtResult' = result
            /\ fmtDir' = CASE outcome = "ok" ->
                                WriteFile(fmtDir, filename,
                                          <<"html", Html(transcript, summary, tweet_url, date)>>)
                           [] outcome = "write_raises" ->
                                WriteFile(fmtDir, filename, <<"truncated">>)
                           [] OTHER -> fmtDir
    /\ UNCHANGED <<botVars, sumVars>>

FmtNext == FormatTranscript

----------------------------------------------------------------------------
(* TLDRBot.create_summary *)

\* the transcript lengths followed: around every multiple of the chunk size,
\* up to MaxChunks chunks
Lengths ==
    { L \in 0..(MaxChunks * max_length) :
        L % max_length \in {0, 1, max_length - 1} }

\* what the language model answers
Outputs ==
    { <<>>,
      <<"a">>,
      <<"bullet", "sp", "a">>,
      <<"a", "nl", "a">>,
      <<"bullet", "a", "nl", "a">>,
      <<"sp", "bullet", "a", "nl">> }

\* a plausible slip: range(0, len(transcript) + 1, max_length)
RECURSIVE PyRange_inclusive(_, _, _)
PyRange_inclusive(start, stop, step) ==
    IF start > stop THEN <<>> ELSE <<start>> \o PyRange_inclusive(start + step, stop, step)

\* range(start, stop, step) for a positive step
RECURSIVE PyRange(_, _, _)
PyRange(start, stop, step) ==
    IF start >= stop THEN <<>> ELSE <<start>> \o PyRange(start + step, stop, step)

\* transcript[lo:hi] of a transcript of length len, as the slice <<lo, hi>>
\* it covers: Python clamps both ends to the length
Slice(len, lo, hi) == <<Min(lo, len), Min(hi, len)>>

\* line 278: [transcript[i:i+max_length] for i in range(0, len(transcript), max_length)]
Chunks(len) ==
    LET starts == PyRange(0, len, max_length)
    IN  [k \in DOMAIN starts |-> Slice(len, starts[k], starts[k] + max_length)]

\* a plausible slip: the marker prepended without the startswith test
Normalize_always(output) == <<"bullet", "sp">> \o Strip(output)

\* lines 298-300: strip, then prepend the marker to the output as a whole
Normalize(output) ==
    LET summary == Strip(output)
    IN  IF ~StartsWith(summary, "bullet") THEN <<"bullet", "sp">> \o summary ELSE summary

\* line 303: "\n".join(summaries)
JoinSummaries(parts) == Join(parts, <<"nl">>)

SumInit ==
    /\ sumPc = "idle"
    /\ sumLen = 0
    /\ sumChunks = <<>>
    /\ sumCalls = <<>>
    /\ sumOutputs = <<>>
    /\ summaries = <<>>
    /\ sumResult = <<>>

\* lines 273-280: the call, with the chunks cut
CreateSummary ==
    /\ sumPc = "idle"
    /\ \E L \in Lengths :
        /\ sumLen' = L
        /\ sumChunks' = Chunks(L)
    /\ sumPc' = "loop"
    /\ UNCHANGED <<sumCalls, sumOutputs, summaries, sumResult, botVars, fmtVars>>

\* lines 281-301: one pass of the loop: the remote call on the next chunk,
\* which raises (lines 304-306: None is returned) or answers
SummarizeChunk ==
    /\ sumPc = "loop"
    /\ Len(sumCalls) < Len(sumChunks)
    /\ LET chunk == sumChunks[Len(sumCalls) + 1]
       IN  /\ sumCalls' = Append(sumCalls, chunk)
           /\ \/ /\ sumPc' = "done"
                 /\ sumResult' = <<"None">>
                 /\ UNCHANGED <<sumOutputs, summaries>>
              \/ \E output \in Outputs :
                 /\ sumOutputs' = Append(sumOutputs, output)
                 /\ summaries' = Append(summaries, Normalize(output))
                 /\ UNCHANGED <<sumPc, sumResult>>
    /\ UNCHANGED <<sumLen, sumChunks, botVars, fmtVars>>

\* line 303: the loop is over
ReturnSummary ==
    /\ sumPc = "loop"
    /\ Len(sumCalls) = Len(sumChunks)
    /\ sumPc' = "done"
    /\ sumResult' = <<"value", JoinSummaries(summaries)>>
    /\ UNCHANGED <<sumLen, sumChunks, sumCalls, sumOutputs, summaries, botVars, fmtVars>>

SumNext ==
    \/ CreateSummary
    \/ SummarizeChunk
    \/ ReturnSummary

----------------------------------------------------------------------------
(* Specifications *)

Init == BotInit /\ FmtInit /\ SumInit

\* the bot's loop
Spec == Init /\ [][BotNext]_vars

\* calls of format_transcript
SpecFormat == Init /\ [][FmtNext]_vars

\* a call of create_summary
SpecSummary == Init /\ [][SumNext]_vars

----------------------------------------------------------------------------
(* Claims about the loop: C1, C2, C3 *)

LoopStates == {"poll", "mention", "sleep"}

\* C1: every mention of a batch whose text holds a URL and whose processing
\* went through without an error has been replied to (with the link to the
\* saved transcript page) by the time the loop has finished with it.
C1_UrlMentionReplied ==
    \A k \in DOMAIN outcomes : outcomes[k] = "url" => attempted[k] \in replies

\* C2: a visit that raises aborts that mention only: the loop goes on with
\* the very next mention of the batch, without sleeping and without touching
\* the cursor, and when the loop sleeps every mention of the batch has been
\* visited, in the batch's order.
C2_FailureAbortsOnlyThatMention ==
    /\ [](pc \in {"mention", "sleep"} => attempted \o Ids(mentions) = Ids(polled))
    /\ [](pc = "sleep" => attempted = Ids(polled))
    /\ [][ (pc = "mention" /\ Len(outcomes') = Len(outcomes) + 1
                /\ outcomes'[Len(outcomes')] = "error")
           => /\ last_mention_id' = last_mention_id
              /\ sleeps' = sleeps
              /\ mentions' = Tail(mentions)
              /\ (mentions' # <<>> => pc' = "mention") ]_vars

\* C2 witness: the first mention of a batch of two raised, the second was
\* processed and its URL found, and the loop is about to sleep
C2_Witness ==
    /\ pc = "sleep"
    /\ Len(polled) = 2
    /\ outcomes = <<"error", "url">>

\* C3, as stated: whatever error has arisen (at startup, in polling, in a
\* mention), the bot is still in its loop
C3_NoErrorIsFatal == lastError # "none" => pc \in LoopStates

\* C3, amended: run() returns only on a startup error and then has never
\* polled; an error in polling or in a mention leaves the bot in its loop; a
\* poll that follows another poll follows exactly one sleep; and the loop
\* never stops: in the loop a step can always be taken, every sleep is
\* followed by a poll, every poll by the visits of its batch and the sleep,
\* and every visit leaves fewer mentions to visit.
C3_LoopResilience ==
    /\ [](pc = "returned" => lastError = "startup" /\ pollOutcome = "none")
    /\ [](lastError \in {"poll", "mention"} => pc \in LoopStates)
    /\ [](pc = "poll" /\ pollOutcome # "none" => sleeps = 1)
    /\ [](pc # "poll" => sleeps = 0)
    /\ [](pc \in LoopStates => ENABLED BotNext)
    /\ [][ /\ pc = "sleep" => pc' = "poll"
           /\ pc = "poll" => pc' \in {"mention", "sleep"}
           /\ pc = "mention" =>
                /\ pc' \in {"mention", "sleep"}
                /\ Len(mentions') < Len(mentions)
           /\ pc \in LoopStates => pc' \in LoopStates ]_vars

\* C3 witness: a poll failed, the loop slept once and is at the next poll
C3_Witness ==
    /\ pc = "poll"
    /\ lastError = "poll"
    /\ pollOutcome \in {"fail_get_me", "fail_get_mentions"}
    /\ sleeps = 1

----------------------------------------------------------------------------
(* Claims about the poll: C4, C5, C6, C10 *)

HasReplyRef(m) == "replied_to" \in Range(m.referenced_tweets)

\* the index in the raw batch of the mention with identifier i
RawIndex(i) == CHOOSE k \in DOMAIN raw : raw[k].id = i

\* what C4 says of the returned list but for its order: exactly the replies of
\* the raw batch, each once, each with an identifier above the cursor the
\* poll began with
ExactlyTheReplies ==
    /\ \A k \in DOMAIN polled :
        /\ polled[k] \in Range(raw)
        /\ HasReplyRef(polled[k])
        /\ polled[k].id > cursorBefore
    /\ \A k \in DOMAIN raw : HasReplyRef(raw[k]) => raw[k] \in Range(polled)
    /\ \A j, k \in DOMAIN polled : j # k => polled[j].id # polled[k].id

\* C4, as stated: the list a poll returns holds exactly the replies of the
\* raw batch, each with an identifier above the cursor the poll began with,
\* in ascending order of identifier, whatever order the API delivered them in.
C4_AscendingOrder ==
    /\ ExactlyTheReplies
    /\ \A j, k \in DOMAIN polled : j < k => polled[j].id < polled[k].id

\* C4, amended: the list a poll returns holds exactly the replies of the raw
\* batch, each with an identifier above the cursor the poll began with, in
\* the order in which the API delivered them.
C4_DeliveryOrder ==
    /\ ExactlyTheReplies
    /\ \A j, k \in DOMAIN polled :
        j < k => RawIndex(polled[j].id) < RawIndex(polled[k].id)

\* C4 witness: the API delivered two replies, the newer one first, and the
\* poll returned both
C4_Witness ==
    /\ Len(raw) = 2
    /\ Len(polled) = 2
    /\ polled[1].id > polled[2].id

\* C5: after a poll that fetched a non-empty raw batch the cursor is the
\* greatest identifier of that batch, replies or not, and every request sent
\* asks for identifiers above the greatest identifier delivered before it.
C5_CursorIsRawMax ==
    /\ (pollOutcome = "batch" /\ raw # <<>>) =>
        /\ \A k \in DOMAIN raw : raw[k].id <= last_mention_id
        /\ \E k \in DOMAIN raw : raw[k].id = last_mention_id
    /\ requested # <<>> =>
        /\ \A i \in deliveredBefore : i <= requested[1]
        /\ requested[1] \in deliveredBefore \cup {NoId}

\* C5 witness: of a raw batch of two only the older mention is a reply; it
\* alone is returned and the cursor is the newer one's identifier
C5_Witness ==
    /\ Len(raw) = 2
    /\ Len(polled) = 1
    /\ \E k \in DOMAIN raw :
        /\ raw[k].id > polled[1].id
        /\ ~HasReplyRef(raw[k])
        /\ last_mention_id = raw[k].id

C10_NoReprocessing ==
    /\ [][last_mention_id' >= last_mention_id]_vars
    /\ [](\A i \in 1..MaxId : timesReturned[i] <= 1 /\ timesProcessed[i] <= 1)

\* C10 witness: a second batch has been returned and visited after a first
\* one, with a failed poll behind
C10_Witness ==
    /\ pc = "sleep"
    /\ cursorBefore # NoId
    /\ attempted # <<>>
    /\ \E i \in 1..MaxId : i <= cursorBefore /\ timesProcessed[i] = 1
    /\ lastError = "poll"

----------------------------------------------------------------------------
(* Claim about format_transcript: C7 *)

Returned == {c \in fmtCalls : c.result # Raised}

----------------------------------------------------------------------------
(* Claims about create_summary: C8, C9 *)

\* the offset in the joined summary of its k-th part
RECURSIVE Offset(_, _)
Offset(parts, k) ==
    IF k = 1 THEN 0 ELSE Offset(parts, k - 1) + Len(parts[k - 1]) + 1

\* `text` is the parts, in order, with one line break between neighbours
IsJoined(text, parts) ==
    /\ Len(text) = IF parts = <<>> THEN 0
                   ELSE Offset(parts, Len(parts)) + Len(parts[Len(parts)])
    /\ \A k \in DOMAIN parts :
        /\ SubSeq(text, Offset(parts, k) + 1, Offset(parts, k) + Len(parts[k])) = parts[k]
        /\ k > 1 => text[Offset(parts, k)] = "nl"

\* C8: when create_summary returns a summary, it has made ceil(L/1024)
\* remote calls, the k-th on characters (k-1)*1024 up to min(k*1024, L) of
\* the transcript, and the summary is that many chunk summaries, the k-th
\* from the k-th call, joined in that order.
C8_OneCallPerChunk ==
    (sumPc = "done" /\ sumResult[1] = "value") =>
        LET n == Len(sumCalls)
        IN  /\ n * max_length >= sumLen
            /\ n > 0 => (n - 1) * max_length < sumLen
            /\ \A k \in 1..n :
                sumCalls[k] = <<(k - 1) * max_length, Min(k * max_length, sumLen)>>
            /\ Len(sumOutputs) = n
            /\ Len(summaries) = n
            /\ IsJoined(sumResult[2], summaries)

\* C8 witness: a transcript of exactly two chunks was summarized in two calls
C8_Witness ==
    /\ sumPc = "done"
    /\ sumResult[1] = "value"
    /\ sumLen = 2 * max_length
    /\ Len(sumCalls) = 2

\* C9, as stated: line by line, a line of a chunk's (stripped) output that
\* begins with the marker is unchanged in the chunk's summary, and any other
\* line begins with the marker there.
C9_EveryLineNormalized ==
    \A k \in DOMAIN summaries :
        LET before == SplitLines(Strip(sumOutputs[k]))
            after == SplitLines(summaries[k])
        IN  /\ Len(after) = Len(before)
            /\ \A i \in DOMAIN before :
                IF StartsWith(before[i], "bullet")
                THEN after[i] = before[i]
                ELSE StartsWith(after[i], "bullet")

\* C9, amended: chunk by chunk, the summary begins with the marker; it is the
\* stripped output itself when that begins with the marker, and otherwise the
\* marker, a blank and the stripped output, whose later lines are as they were.
C9_EveryChunkNormalized ==
    \A k \in DOMAIN summaries :
        LET stripped == Strip(sumOutputs[k])
        IN  /\ StartsWith(summaries[k], "bullet")
            /\ StartsWith(stripped, "bullet") => summaries[k] = stripped
            /\ ~StartsWith(stripped, "bullet") =>
                summaries[k] = <<"bullet", "sp">> \o stripped
            /\ Tail(SplitLines(summaries[k])) = Tail(SplitLines(stripped))

\* C9 witness: a two-line output without markers was returned as the marker,
\* a blank and the output, its second line still without a marker
C9_Witness ==
    /\ sumPc = "done"
    /\ sumResult[1] = "value"
    /\ \E k \in DOMAIN summaries :
        /\ sumOutputs[k] = <<"a", "nl", "a">>
        /\ summaries[k] = <<"bullet", "sp", "a", "nl", "a">>

====
